---------------------------- MODULE Spec2Model ----------------------------
(***************************************************************************)
(* Model of the IgabayCare scoring and decision engine:                    *)
(*   - ClinicRiskModel (ml_models/clinic_risk_model.py): predict_risk,     *)
(*     its score / level / account-status rules, load_model;               *)
(*   - the Flask layer of ml_models/api_integration.py (assess-risk,       *)
(*     batch-assess, model-info, reload-model) and ml_models/simple_api.py;*)
(*   - the behaviour classifier CLIs src/ml/behavior_inference.py and      *)
(*     src/ml/mock_inference.py.                                           *)
(*                                                                         *)
(* Probabilities are exact rationals n/ProbDen; scores are integers in     *)
(* units of 1/(100*ProbDen), so 0.3 is 30*ProbDen and 0.7 is 70*ProbDen.   *)
(* Python values are tagged tuples: <<"none">>, <<"bool", b>>,             *)
(* <<"str", s>>, <<"num", n>>; a dict is a function whose DOMAIN is the    *)
(* set of keys present.                                                    *)
(***************************************************************************)
EXTENDS Integers, Sequences, FiniteSets, TLC

VARIABLES
    \* ---- scoring (one predict_risk / simple_api.assess_risk evaluation)
    clf_classes,    \* classes_ of the loaded classifier, sorted labels
    risk_proba,     \* model.predict_proba(X)[0], numerators over ProbDen
    clinic_data,    \* the raw record handed to predict_risk
    result,         \* what predict_risk returned (NoResult before the call)
    simple_result,  \* what simple_api.assess_risk put in 'data'
    \* ---- the Flask process of api_integration.py
    risk_model,     \* the module-level ClinicRiskModel: its five loaded fields
    model_loaded,   \* the module-level flag
    booted,         \* the import-time load_model() call has run
    response,       \* the answer of the last request, with what it did
    load_log,       \* the last ClinicRiskModel.load_model call: whether it ran, what it returned
    \* ---- the same process with its threads interleaved
    loader,         \* the thread inside load_model: position, model_data
    predictor,      \* the thread inside predict_risk: position, the parts it read
    \* ---- one run of a behaviour-classifier CLI
    stdin,          \* what the CLI reads from standard input
    behavior_model, \* the artifact at --model and what its parts answer
    verdict,        \* the JSON the CLI printed, its exit code and the path taken
    \* ---- feature engineering inside one predict_risk call
    trained_columns,\* feature_columns of the loaded bundle, in training order
    features,       \* what engineer_features returned for clinic_data
    \* ---- one run of a training script
    trainer         \* the training data, the candidates' scores, what was fitted and written

scoreVars == <<clf_classes, risk_proba, clinic_data, result, simple_result>>

apiVars == <<risk_model, model_loaded, booted, response, load_log>>

threadVars == <<loader, predictor>>

behaviorVars == <<stdin, behavior_model, verdict>>

featureVars == <<trained_columns, features>>

trainVars == <<trainer>>

vars == <<scoreVars, apiVars, threadVars, behaviorVars, featureVars, trainVars>>

-----------------------------------------------------------------------------
(* Bounds *)

\* probabilities are multiples of 1/ProbDen
ProbDen == 10

\* the distinct bundles an artifact file can hold
NBundles == 2

\* the longest batch drawn item by item (plus the two batches at the cap)
MaxBatchLen == 3

-----------------------------------------------------------------------------
(* Python values *)

PyNone == <<"none">>
PyBool(b) == <<"bool", b>>
PyStr(s) == <<"str", s>>
PyNum(n) == <<"num", n>>
Absent == <<"absent">>

\* bool(v) of Python
Truthy(v) ==
    CASE v[1] = "none" -> FALSE
      [] v[1] = "bool" -> v[2]
      [] v[1] = "str"  -> v[2] # ""
      [] v[1] = "num"  -> v[2] # 0

\* int(b), .astype(int) of a boolean
Ind(b) == IF b THEN 1 ELSE 0

\* no clamping at all
NoClamp(lo, x, hi) == x

\* min(hi, max(lo, x))
Clamp(lo, x, hi) == IF x < lo THEN lo ELSE IF x > hi THEN hi ELSE x

\* d.get(k, default)
Get(d, k, default) == IF k \in DOMAIN d THEN d[k] ELSE default

\* the dict holding exactly the keys whose choice is not Absent
MkDict(choice) ==
    [k \in {x \in DOMAIN choice : choice[x] # Absent} |-> choice[k]]

-----------------------------------------------------------------------------
(* The classifier: sklearn orders classes_ by sorted label, and predict    *)
(* answers the class of the first largest probability.                     *)

Labels == {"HIGH", "LOW", "MEDIUM"}

\* every classes_ a fitted classifier can have: a sorted, non-empty label set
ClassLists ==
    { <<"HIGH", "LOW", "MEDIUM">>,
      <<"HIGH", "LOW">>, <<"HIGH", "MEDIUM">>, <<"LOW", "MEDIUM">>,
      <<"HIGH">>, <<"LOW">>, <<"MEDIUM">> }

RECURSIVE SeqSum(_)
SeqSum(s) == IF s = <<>> THEN 0 ELSE Head(s) + SeqSum(Tail(s))

\* the probability vectors of length n: entries in 0..ProbDen summing to ProbDen
ProbaVectors(n) ==
    { p \in [1..n -> 0..ProbDen] : SeqSum(p) = ProbDen }

SeqMax(s) == CHOOSE m \in {s[i] : i \in DOMAIN s} : \A i \in DOMAIN s : s[i] <= m

\* np.argmax: the first index holding the maximum
ArgMax(s) == CHOOSE i \in DOMAIN s :
                /\ s[i] = SeqMax(s)
                /\ \A j \in DOMAIN s : j < i => s[j] < s[i]

\* model.predict(X)[0]
ModelPredict(classes, proba) == classes[ArgMax(proba)]

\* P(c): the probability of the class labelled c, 0 when the model lacks it
ProbOf(classes, proba, c) ==
    IF \E i \in DOMAIN classes : classes[i] = c
    THEN proba[CHOOSE i \in DOMAIN classes : classes[i] = c]
    ELSE 0

-----------------------------------------------------------------------------
(* ClinicRiskModel.predict_risk: score, level, account status *)

\* the weights read as 7 and 3
risk_score_unscaled(proba) ==
    LET high_prob   == IF Len(proba) > 2 THEN proba[3] ELSE 0
        medium_prob == IF Len(proba) > 1 THEN proba[2] ELSE 0
    IN  high_prob * 700 + medium_prob * 300

\* risk_score = high_prob * 0.7 + medium_prob * 0.3, with the positional
\* reads risk_proba[2] and risk_proba[1] (0-based) of the source
risk_score_of(proba) ==
    LET high_prob   == IF Len(proba) > 2 THEN proba[3] ELSE 0
        medium_prob == IF Len(proba) > 1 THEN proba[2] ELSE 0
    IN  high_prob * 70 + medium_prob * 30

recommend_ignoring_license(risk_score, risk_level, data) ==
    IF risk_level = "HIGH" THEN "RESTRICTED"
    ELSE IF risk_level = "LOW" THEN "ACTIVE_LIMITED"
    ELSE "VERIFICATION_REQUIRED"

recommend_account_status(risk_score, risk_level, data) ==
    IF risk_level = "HIGH" THEN "RESTRICTED"
    ELSE IF risk_level = "LOW" /\ Truthy(Get(data, "has_license", PyBool(FALSE)))
         THEN "ACTIVE_LIMITED"
    ELSE "VERIFICATION_REQUIRED"

NoResult == [kind |-> "none"]

\* the dict predict_risk builds at lines 416-441
predict_risk_result(classes, proba, data, version) ==
    LET risk_level == ModelPredict(classes, proba)
        risk_score == risk_score_of(proba)
    IN  [ kind           |-> "assessment",
          risk_score     |-> risk_score,
          risk_level     |-> risk_level,
          account_status |-> recommend_account_status(risk_score, risk_level, data),
          confidence     |-> SeqMax(proba),
          model_version  |-> version ]

-----------------------------------------------------------------------------
(* simple_api.assess_risk: score from the predicted level and confidence *)

\* 0.8 / 0.4 / 0.2 + (confidence - 0.5) * 0.4, clamped to [0, 1]
simple_risk_score(risk_level, confidence) ==
    LET base == IF risk_level = "HIGH" THEN 80 * ProbDen
                ELSE IF risk_level = "MEDIUM" THEN 40 * ProbDen
                ELSE 20 * ProbDen
    IN  Clamp(0, base + (10 * confidence - 5 * ProbDen) * 4, 100 * ProbDen)

simple_account_status(risk_level) ==
    IF risk_level = "HIGH" THEN "RESTRICTED"
    ELSE IF risk_level = "LOW" THEN "ACTIVE_LIMITED"
    ELSE "VERIFICATION_REQUIRED"

\* the features dict of lines 56-72, without the pass-through columns
\* (number_of_staff and the behavioural metrics, each .get(name, 0))
simple_features(data) ==
    [ has_website       |-> PyNum(Ind(Truthy(Get(data, "website", PyNone)))),
      has_phone         |-> PyNum(Ind(Truthy(Get(data, "phone", PyNone)))),
      has_license       |-> PyNum(Ind(Truthy(Get(data, "license_number", PyNone)))),
      has_accreditation |-> PyNum(Ind(Truthy(Get(data, "accreditation", PyNone)))),
      years_in_business |->
          PyNum(2024 - Get(data, "year_established", PyNum(2024))[2]),
      number_of_doctors |-> Get(data, "number_of_doctors", PyNum(1)) ]

\* 2024 - None is a TypeError, answered 500 by the handler's except clause
simple_features_raise(data) == Get(data, "year_established", Absent) = PyNone

\* a null cell reaches model.predict, which the estimator accepts or refuses
simple_null_cell(data) == Get(data, "number_of_doctors", Absent) = PyNone

\* the 'data' of the answer; accepts: the estimator takes the frame
simple_assess_result(classes, proba, data, accepts) ==
    LET risk_level == ModelPredict(classes, proba)
        confidence == SeqMax(proba)
    IN  IF simple_features_raise(data) \/ ~accepts THEN [kind |-> "error"]
        ELSE [ kind           |-> "assessment",
               features       |-> simple_features(data),
               risk_score     |-> simple_risk_score(risk_level, confidence),
               risk_level     |-> risk_level,
               account_status |-> simple_account_status(risk_level),
               confidence     |-> confidence ]

\* the feature columns of clean_train.main (lines 66-73) for the row of a
\* record, after features.fillna(0); a missing cell of the frame is null
clean_train_features(row) ==
    LET cell(k) == Get(row, k, PyNone)
        filled(v) == IF v = PyNone THEN PyNum(0) ELSE v
    IN  [ has_website       |-> PyNum(Ind(cell("website") # PyNone)),
          has_phone         |-> PyNum(Ind(cell("phone") # PyNone)),
          has_license       |-> PyNum(Ind(cell("license_number") # PyNone)),
          has_accreditation |-> PyNum(Ind(cell("accreditation") # PyNone)),
          years_in_business |->
              IF cell("year_established") = PyNone THEN PyNum(0)
              ELSE PyNum(2024 - cell("year_established")[2]),
          number_of_doctors |-> filled(cell("number_of_doctors")) ]

-----------------------------------------------------------------------------
(* The records the scoring specification draws from *)

ProfileKeys == {"license_number", "has_license"}

FieldChoices(k) ==
    CASE k = "license_number" ->
            {Absent, PyNone, PyStr(""), PyStr("LIC123456"), PyStr("lic-1")}
      [] k = "has_license" ->
            {Absent, PyBool(TRUE), PyBool(FALSE)}

AllChoices == UNION {FieldChoices(k) : k \in ProfileKeys}

Profiles ==
    { MkDict(c) : c \in { f \in [ProfileKeys -> AllChoices] :
                            \A k \in ProfileKeys : f[k] \in FieldChoices(k) } }

ScoreInit ==
    /\ clf_classes \in ClassLists
    /\ risk_proba \in ProbaVectors(Len(clf_classes))
    /\ clinic_data \in Profiles
    /\ result = NoResult
    /\ simple_result = NoResult

\* ClinicRiskModel.predict_risk reaches the classifier and returns its dict
PredictRiskScores ==
    /\ result = NoResult
    /\ result' = predict_risk_result(clf_classes, risk_proba, clinic_data, "1.0")
    /\ UNCHANGED <<clf_classes, risk_proba, clinic_data, simple_result>>
    /\ UNCHANGED <<apiVars, threadVars, behaviorVars, featureVars, trainVars>>

\* simple_api.assess_risk scores the same classifier output; a body that is
\* falsy (an empty mapping) is answered 400 before any scoring
SimpleAssessRisk ==
    /\ simple_result = NoResult
    /\ DOMAIN clinic_data # {}
    /\ \E accepts \in (IF simple_null_cell(clinic_data) THEN BOOLEAN ELSE {TRUE}) :
          simple_result' =
              simple_assess_result(clf_classes, risk_proba, clinic_data, accepts)
    /\ UNCHANGED <<clf_classes, risk_proba, clinic_data, result>>
    /\ UNCHANGED <<apiVars, threadVars, behaviorVars, featureVars, trainVars>>

ScoreNext == PredictRiskScores \/ SimpleAssessRisk

-----------------------------------------------------------------------------
(* Behaviour classifier: snapshots.  Every snapshot number is in           *)
(* hundredths (timeOnPageSeconds 5 is 500, a rate of 0.1 is 10); verdict   *)
(* confidences and probabilities are in units of 1/(100*ProbDen).          *)

\* 1.0 as a confidence or probability
One == 100 * ProbDen

TimeVals  == {200, 500, 3000, 12000, 30000}
MouseVals == {0, 10, 50, 80}
KeyVals   == {0, 10, 30}
IdleVals  == {20, 50, 70, 90}
InteractionVals == {0, 10, 50}

MkSnapshot(t, m, k, idle, score) ==
    [ timeOnPageSeconds |-> t, mouseMoveRate |-> m, keyPressRate |-> k,
      idleRatio |-> idle, interactionScore |-> score ]

\* a snapshot is a JSON value: a mapping with its fields, or something else
NumericSnapshots ==
    { [shape |-> "dict",
       fields |-> MkSnapshot(PyNum(t), PyNum(m), PyNum(k), PyNum(i), PyNum(x))] :
         t \in TimeVals, m \in MouseVals, k \in KeyVals, i \in IdleVals,
         x \in InteractionVals }

OddSnapshots ==
    { [shape |-> "dict", fields |-> << >>],
      [shape |-> "dict", fields |-> [timeOnPageSeconds |-> PyNum(200)]],
      [shape |-> "dict", fields |-> [idleRatio |-> PyNum(90)]],
      [shape |-> "dict",
       fields |-> MkSnapshot(PyStr("2"), PyNum(0), PyNum(0), PyNum(90), PyNum(0))],
      [shape |-> "dict",
       fields |-> MkSnapshot(PyNum(200), PyNum(0), PyNone, PyNum(90), PyNum(0))],
      [shape |-> "dict",
       fields |-> MkSnapshot(PyNum(200), PyNum(50), PyNone, PyNum(20), PyNum(50))],
      [shape |-> "list", fields |-> << >>],
      [shape |-> "null", fields |-> << >>] }

Snapshots == NumericSnapshots \cup OddSnapshots

\* bool(snapshot) of `if not snapshot`
SnapshotTruthy(snapshot) ==
    CASE snapshot.shape = "dict" -> DOMAIN snapshot.fields # {}
      [] snapshot.shape = "null" -> FALSE
      [] OTHER -> TRUE

\* what json.loads(sys.stdin.read()) meets: text that is no JSON, JSON that
\* is no object, an object without 'snapshot', an object with one
Stdins ==
    { [kind |-> k, snapshot |-> [shape |-> "null", fields |-> << >>]] :
         k \in {"garbage", "not_object", "no_snapshot"} }
    \cup { [kind |-> "snapshot", snapshot |-> sn] : sn \in Snapshots }

\* snapshot.get(field, 0)
Field(snapshot, f) == Get(snapshot.fields, f, PyNum(0))

\* a value Python can order against a float
IsNumber(v) == v[1] = "num"

\* the shape of a verdict before any CLI has printed one
BlankVerdict ==
    [ isHuman |-> FALSE, confidence |-> 0, modelVersion |-> "",
      reason |-> "", probabilities |-> [human |-> 0, bot |-> 0] ]

\* join the triggered indicators, in the order the code appends them
RECURSIVE JoinReasons(_)
JoinReasons(rs) ==
    IF rs = << >> THEN ""
    ELSE IF Len(rs) = 1 THEN rs[1]
    ELSE rs[1] \o ", " \o JoinReasons(Tail(rs))

\* the sub-sequence of names whose test holds
Triggered(names, holds) ==
    SelectSeq(names, LAMBDA n : holds[n])

-----------------------------------------------------------------------------
(* mock_inference.py *)

\* the double the source's running sum evaluates to is below the exact sum
\* only for 0.5 + 0.2 + 0.1 - 0.2 = 0.5999999999999999 (IEEE-754 doubles);
\* every other reachable sum that is 0.6 exactly is a double >= 0.6
RoundsBelow(terms) == terms = <<20, 10, -20>>

\* the weights with the sign of the first one turned
mock_weight_flipped(n) ==
    CASE n = "very short time on page" -> -30
      [] n = "minimal interaction"     -> 20
      [] n = "high idle ratio"         -> 20
      [] n = "low interaction score"   -> 10
      [] n = "reasonable time on page" -> -20
      [] n = "active interaction"      -> -20
      [] n = "low idle ratio"          -> -10

\* what each indicator adds to confidence (hundredths): lines 28-58
mock_weight(n) ==
    CASE n = "very short time on page" -> 30
      [] n = "minimal interaction"     -> 20
      [] n = "high idle ratio"         -> 20
      [] n = "low interaction score"   -> 10
      [] n = "reasonable time on page" -> -20
      [] n = "active interaction"      -> -20
      [] n = "low idle ratio"          -> -10

\* predict_human_mock(snapshot) on a mapping whose compared fields are numbers
predict_human_mock(snapshot) ==
    LET time_on_page      == Field(snapshot, "timeOnPageSeconds")[2]
        mouse_rate        == Field(snapshot, "mouseMoveRate")[2]
        key_rate          == Field(snapshot, "keyPressRate")[2]
        idle_ratio        == Field(snapshot, "idleRatio")[2]
        interaction_score == Field(snapshot, "interactionScore")[2]
        bot_names   == << "very short time on page", "minimal interaction",
                          "high idle ratio", "low interaction score" >>
        human_names == << "reasonable time on page", "active interaction",
                          "low idle ratio" >>
        holds == [ n \in {bot_names[i] : i \in 1..4} \cup {human_names[i] : i \in 1..3} |->
            CASE n = "very short time on page" -> time_on_page < 500
              [] n = "minimal interaction"     -> mouse_rate < 10 /\ key_rate < 10
              [] n = "high idle ratio"         -> idle_ratio > 70
              [] n = "low interaction score"   -> interaction_score < 10
              [] n = "reasonable time on page" ->
                    time_on_page > 3000 /\ time_on_page < 30000
              [] n = "active interaction"      -> mouse_rate > 50 /\ key_rate > 10
              [] n = "low idle ratio"          -> idle_ratio < 50 ]
        weight == [ n \in DOMAIN holds |-> mock_weight(n) ]
        bot_indicators   == Triggered(bot_names, holds)
        human_indicators == Triggered(human_names, holds)
        terms == [i \in 1..(Len(bot_indicators) + Len(human_indicators)) |->
                    IF i <= Len(bot_indicators)
                    THEN weight[bot_indicators[i]]
                    ELSE weight[human_indicators[i - Len(bot_indicators)]]]
        confidence == 50 + SeqSum(terms)
        is_human == confidence < 60 \/ (confidence = 60 /\ RoundsBelow(terms))
        final_confidence ==
            (IF confidence >= 50 THEN confidence - 50 ELSE 50 - confidence) * 2
        reason ==
            IF is_human
            THEN "Human indicators: " \o
                 (IF human_indicators # << >> THEN JoinReasons(human_indicators)
                  ELSE "normal behavior patterns")
            ELSE "Bot indicators: " \o
                 (IF bot_indicators # << >> THEN JoinReasons(bot_indicators)
                  ELSE "suspicious behavior patterns")
    IN  [ isHuman |-> is_human,
          confidence |-> Clamp(0, final_confidence, 100) * ProbDen,
          modelVersion |-> "mock-1.0.0",
          reason |-> reason,
          probabilities |->
            [ human |-> IF is_human THEN (100 - final_confidence) * ProbDen
                        ELSE 10 * ProbDen,
              bot   |-> IF ~is_human THEN final_confidence * ProbDen
                        ELSE 10 * ProbDen ] ]

\* predict_human_mock raises: a non-mapping has no .get; a value that is no
\* number cannot be ordered against a float.  keyPressRate is compared only
\* when the mouse test before it in an `and` holds.
mock_raises(snapshot) ==
    \/ snapshot.shape # "dict"
    \/ \E f \in {"timeOnPageSeconds", "mouseMoveRate", "idleRatio", "interactionScore"} :
          ~IsNumber(Field(snapshot, f))
    \/ /\ ~IsNumber(Field(snapshot, "keyPressRate"))
       /\ \/ Field(snapshot, "mouseMoveRate")[2] < 10
          \/ Field(snapshot, "mouseMoveRate")[2] > 50

\* the error_result of main() in mock_inference.py, lines 99-109
mock_error_result(e) ==
    [ isHuman |-> FALSE, confidence |-> 0, modelVersion |-> "mock-error",
      reason |-> "Mock inference failed: " \o e,
      probabilities |-> [human |-> 0, bot |-> One] ]

\* main() of mock_inference.py: the printed JSON, the exit code, the path
mock_main(input) ==
    IF input.kind = "garbage" THEN
        [cli |-> "mock", path |-> "main_error", exit |-> 1,
         out |-> mock_error_result("invalid JSON")]
    ELSE IF input.kind = "not_object" THEN
        [cli |-> "mock", path |-> "main_error", exit |-> 1,
         out |-> mock_error_result("no attribute get")]
    ELSE IF input.kind = "no_snapshot" \/ ~SnapshotTruthy(input.snapshot) THEN
        [cli |-> "mock", path |-> "main_error", exit |-> 1,
         out |-> mock_error_result("No snapshot provided in input")]
    ELSE IF mock_raises(input.snapshot) THEN
        [cli |-> "mock", path |-> "main_error", exit |-> 1,
         out |-> mock_error_result("bad snapshot")]
    ELSE
        [cli |-> "mock", path |-> "ok", exit |-> 0,
         out |-> predict_human_mock(input.snapshot)]

-----------------------------------------------------------------------------
(* behavior_inference.py *)

\* what joblib.load finds at --model: unreadable, or a dict with some of the
\* keys; classes and proba are what the RandomForest answers for the
\* snapshot (labels 0 bot, 1 human), and each of scaler.transform and
\* model.predict may raise
BehaviorClassLists == { <<0, 1>>, <<0>>, <<1>> }

BehaviorModels ==
    { [readable |-> r, keys |-> ks, classes |-> c, proba |-> p, raises |-> x] :
        r \in BOOLEAN,
        ks \in { {"model", "scaler", "version"}, {"model", "scaler"},
                 {"scaler", "version"}, {"model", "version"} },
        c \in BehaviorClassLists,
        p \in UNION {ProbaVectors(n) : n \in 1..2},
        x \in {"none", "scaler", "model"} }

\* the models that differ in something the run reads
BehaviorModelChoices ==
    { bm \in BehaviorModels :
        /\ Len(bm.proba) = Len(bm.classes)
        /\ ~bm.readable =>
              /\ bm.keys = {"model", "scaler", "version"}
              /\ bm.classes = <<0, 1>> /\ bm.proba = <<ProbDen, 0>>
              /\ bm.raises = "none"
        /\ (bm.keys # {"model", "scaler", "version"} \/ bm.raises # "none") =>
              bm.classes = <<0, 1>> /\ bm.proba = <<ProbDen, 0>> }

\* the reason rules of predict_human raise TypeError on a value that is no
\* number; they run only for a bot prediction
reason_raises(snapshot) ==
    \/ \E f \in {"timeOnPageSeconds", "mouseMoveRate", "idleRatio"} :
          ~IsNumber(Field(snapshot, f))
    \/ /\ ~IsNumber(Field(snapshot, "keyPressRate"))
       /\ Field(snapshot, "mouseMoveRate")[2] < 10

\* a safe default that trusts the session
predict_human_error_trusting(e) ==
    [ isHuman |-> TRUE, confidence |-> 0, modelVersion |-> "error",
      reason |-> "Prediction error: " \o e,
      probabilities |-> [human |-> One, bot |-> 0] ]

\* the safe default of predict_human's except clause, lines 106-117
predict_human_error(e) ==
    [ isHuman |-> FALSE, confidence |-> 0, modelVersion |-> "error",
      reason |-> "Prediction error: " \o e,
      probabilities |-> [human |-> 0, bot |-> One] ]

\* the error_result of main() in behavior_inference.py, lines 144-155
inference_error_result(e) ==
    [ isHuman |-> FALSE, confidence |-> 0, modelVersion |-> "error",
      reason |-> "Inference failed: " \o e,
      probabilities |-> [human |-> 0, bot |-> One] ]

\* predict_human(model_data, snapshot)
predict_human(model_data, snapshot) ==
    LET version == IF "version" \in model_data.keys THEN "1.0.0" ELSE "unknown"
        probabilities == model_data.proba
        prediction == model_data.classes[ArgMax(probabilities)]
        human_prob == IF Len(probabilities) > 1 THEN probabilities[2] * 100 ELSE 0
        bot_prob   == IF Len(probabilities) > 0 THEN probabilities[1] * 100 ELSE 0
        is_human   == prediction = 1
        confidence == IF human_prob >= bot_prob THEN human_prob ELSE bot_prob
        names == << "very short time on page", "minimal interaction",
                    "high idle ratio" >>
        holds == [ n \in {names[i] : i \in 1..3} |->
            CASE n = "very short time on page" ->
                    Field(snapshot, "timeOnPageSeconds")[2] < 500
              [] n = "minimal interaction" ->
                    /\ Field(snapshot, "mouseMoveRate")[2] < 10
                    /\ Field(snapshot, "keyPressRate")[2] < 10
              [] n = "high idle ratio" ->
                    Field(snapshot, "idleRatio")[2] > 70 ]
        reasons == Triggered(names, holds)
        reason ==
            IF ~is_human /\ reasons # << >>
            THEN "Bot indicators: " \o JoinReasons(reasons)
            ELSE "Behavioral patterns match human interaction"
    IN  IF "model" \notin model_data.keys THEN
            [path |-> "predict_error",
             out |-> predict_human_error("'model'")]
        ELSE IF "scaler" \notin model_data.keys THEN
            [path |-> "predict_error",
             out |-> predict_human_error("'scaler'")]
        ELSE IF snapshot.shape # "dict" THEN
            [path |-> "predict_error",
             out |-> predict_human_error("no attribute get")]
        ELSE IF model_data.raises # "none" THEN
            [path |-> "predict_error",
             out |-> predict_human_error(model_data.raises)]
        ELSE IF ~is_human /\ reason_raises(snapshot) THEN
            [path |-> "predict_error",
             out |-> predict_human_error("not comparable")]
        ELSE
            [path |-> "ok",
             out |-> [ isHuman |-> is_human, confidence |-> confidence,
                       modelVersion |-> version, reason |-> reason,
                       probabilities |-> [human |-> human_prob, bot |-> bot_prob] ]]

\* main() of behavior_inference.py
behavior_main(model_data, input) ==
    LET r == predict_human(model_data, input.snapshot)
    IN  IF ~model_data.readable THEN
            [cli |-> "learned", path |-> "main_error", exit |-> 1,
             out |-> inference_error_result("Failed to load model")]
        ELSE IF input.kind = "garbage" THEN
            [cli |-> "learned", path |-> "main_error", exit |-> 1,
             out |-> inference_error_result("invalid JSON")]
        ELSE IF input.kind = "not_object" THEN
            [cli |-> "learned", path |-> "main_error", exit |-> 1,
             out |-> inference_error_result("no attribute get")]
        ELSE IF input.kind = "no_snapshot" \/ ~SnapshotTruthy(input.snapshot) THEN
            [cli |-> "learned", path |-> "main_error", exit |-> 1,
             out |-> inference_error_result("No snapshot provided in input")]
        ELSE [cli |-> "learned", path |-> r.path, exit |-> 0, out |-> r.out]

-----------------------------------------------------------------------------
(* One CLI run: the inputs are there, then one of the two scripts runs *)

NoVerdict ==
    [cli |-> "none", path |-> "none", exit |-> 0, out |-> BlankVerdict]

BehaviorInit ==
    /\ stdin \in Stdins
    /\ behavior_model \in BehaviorModelChoices
    /\ verdict = NoVerdict

BehaviorIdle ==
    /\ stdin = [kind |-> "garbage", snapshot |-> [shape |-> "null", fields |-> << >>]]
    /\ behavior_model =
          [readable |-> FALSE, keys |-> {"model", "scaler", "version"},
           classes |-> <<0, 1>>, proba |-> <<ProbDen, 0>>, raises |-> "none"]
    /\ verdict = NoVerdict

\* python behavior_inference.py --model <artifact> < stdin
RunBehaviorInference ==
    /\ verdict = NoVerdict
    /\ verdict' = behavior_main(behavior_model, stdin)
    /\ UNCHANGED <<stdin, behavior_model>>
    /\ UNCHANGED <<scoreVars, apiVars, threadVars, featureVars, trainVars>>

\* python mock_inference.py < stdin
RunMockInference ==
    /\ verdict = NoVerdict
    /\ verdict' = mock_main(stdin)
    /\ UNCHANGED <<stdin, behavior_model>>
    /\ UNCHANGED <<scoreVars, apiVars, threadVars, featureVars, trainVars>>

BehaviorNext == RunBehaviorInference \/ RunMockInference

-----------------------------------------------------------------------------
(* ClinicRiskModel state and load_model *)

\* self.model = None: no classifier; the other fields hold their constructor
\* values, which belong to no bundle
NoBundle == 0

BundleIds == 1..NBundles

BundleKeys == {"model", "scaler", "label_encoders", "feature_columns", "model_version"}

\* the order in which load_model reads model_data[...] and assigns
LoadFields == <<"model", "scaler", "label_encoders", "feature_columns">>

BundleVersion(id) == "v" \o ToString(id)

\* ClinicRiskModel.__init__
NewClinicRiskModel ==
    [ model           |-> NoBundle,
      scaler          |-> NoBundle,
      label_encoders  |-> NoBundle,
      feature_columns |-> NoBundle,
      model_version   |-> "2.0" ]

\* what joblib.load can find at the path: nothing readable, or the dict of
\* bundle id with all five keys or with one of them missing
Artifacts ==
    {[readable |-> FALSE, id |-> NoBundle, keys |-> {}]}
    \cup { [readable |-> TRUE, id |-> i, keys |-> BundleKeys \ miss] :
              i \in BundleIds, miss \in {{}} \cup {{k} : k \in BundleKeys} }

\* the i-th assignment of load_model (the fifth is model_version, read with
\* .get and the default '1.0'); a missing key raises KeyError, which the
\* except clause turns into return False, and the assignments already made stay
load_step(self, model_data, i) ==
    IF i > Len(LoadFields)
    THEN [ self |-> [self EXCEPT !.model_version =
                        IF "model_version" \in model_data.keys
                        THEN BundleVersion(model_data.id) ELSE "1.0"],
           done |-> TRUE, ret |-> TRUE ]
    ELSE IF LoadFields[i] \notin model_data.keys
         THEN [self |-> self, done |-> TRUE, ret |-> FALSE]
         ELSE [ self |-> [self EXCEPT ![LoadFields[i]] = model_data.id],
                done |-> FALSE, ret |-> FALSE ]

\* the assignments of load_model from the i-th on
RECURSIVE load_assign(_, _, _)
load_assign(self, model_data, i) ==
    LET st == load_step(self, model_data, i)
    IN  IF st.done THEN [self |-> st.self, ret |-> st.ret]
        ELSE load_assign(st.self, model_data, i + 1)

\* ClinicRiskModel.load_model(filepath)
crm_load_model(self, model_data) ==
    IF ~model_data.readable
    THEN [self |-> self, ret |-> FALSE]
    ELSE load_assign(self, model_data, 1)

-----------------------------------------------------------------------------
(* Request payloads *)

\* a JSON value sent as a clinic record: its shape, its keys when it is a
\* mapping, the step of predict_risk at which its values make the code raise
\* ("none" when it scores), and the class the classifier favours for it
MkItem(shape, data, err_at, signal) ==
    [shape |-> shape, data |-> data, err_at |-> err_at, signal |-> signal]

Identity == [clinic_name |-> PyStr("Clinic A"), email |-> PyStr("a@clinic.ph")]

OkLow ==
    MkItem("dict",
           [clinic_name |-> PyStr("Clinic A"), email |-> PyStr("a@clinic.ph"),
            license_number |-> PyStr("LIC123456")], "none", "LOW")
OkHigh       == MkItem("dict", Identity, "none", "HIGH")
BadEngineer  == MkItem("dict", Identity, "engineer", "LOW")
BadEncode    == MkItem("dict", Identity, "encode", "LOW")
BadClassify  == MkItem("dict", Identity, "classify", "LOW")
NoName       == MkItem("dict", [email |-> PyStr("a@clinic.ph")], "none", "LOW")
EmptyEmail   ==
    MkItem("dict", [clinic_name |-> PyStr("Clinic A"), email |-> PyStr("")],
           "none", "LOW")
EmptyDict    == MkItem("dict", << >>, "none", "LOW")
StrItem      == MkItem("str", << >>, "none", "LOW")
NumItem      == MkItem("num", << >>, "none", "LOW")
ListItem     == MkItem("list", << >>, "none", "LOW")
NullItem     == MkItem("null", << >>, "none", "LOW")

Items ==
    { OkLow, OkHigh, BadEngineer, BadEncode, BadClassify, NoName, EmptyEmail,
      EmptyDict, StrItem, NumItem, ListItem, NullItem }

\* the item kinds drawn into batches: one of each way batch-assess treats an item
BatchItems == {OkLow, OkHigh, BadEngineer, NoName, StrItem, NullItem}

\* bool(clinic_data) of `if not clinic_data`: the non-mapping items are the
\* non-empty string, the non-zero number and the non-empty list
ItemTruthy(item) ==
    CASE item.shape = "dict" -> DOMAIN item.data # {}
      [] item.shape = "null" -> FALSE
      [] OTHER -> TRUE

\* a well-formed profile is a mapping carrying the identity fields
WellFormed(item) ==
    /\ item.shape = "dict"
    /\ \A f \in {"clinic_name", "email"} :
          f \in DOMAIN item.data /\ Truthy(item.data[f])

-----------------------------------------------------------------------------
(* ClinicRiskModel.predict_risk as one call *)

\* the classifier of a trained bundle knows the three levels
TrainedClasses == <<"HIGH", "LOW", "MEDIUM">>

\* model.predict_proba(X_encoded)[0]: a fixed function of the record, here
\* most of the mass on the record's class and 1/ProbDen on each other class
Classify(item) ==
    [i \in 1..Len(TrainedClasses) |->
        IF TrainedClasses[i] = item.signal THEN ProbDen - 2 ELSE 1]

\* predict_risk with the fields it reads: self.model, self.model_version
\* (self.feature_columns and self.label_encoders select and encode the
\* columns).  Every exception inside the try block gives None:
\*  - a non-mapping has no columns (.copy() or df.columns raises),
\*  - a mapping whose values make engineer_features, the encoders or the
\*    classifier raise.
predict_risk(self, item) ==
    IF self.model = NoBundle THEN NoResult
    ELSE IF item.shape # "dict" THEN NoResult
    ELSE IF item.err_at # "none" THEN NoResult
    ELSE predict_risk_result(TrainedClasses, Classify(item), item.data,
                             self.model_version)

\* the bundles whose parts one predict_risk call reads
UsedParts(self) ==
    [ model           |-> self.model,
      feature_columns |-> self.feature_columns,
      label_encoders  |-> self.label_encoders ]

-----------------------------------------------------------------------------
(* api_integration.py handlers, each as one call *)

MaxClinics == 100

NoResponse == [endpoint |-> "none"]

\* load_model() of api_integration: sets the flag on success, leaves it on
\* failure, and has no return statement
api_load_model(self, loaded, model_data) ==
    LET r == crm_load_model(self, model_data)
    IN  [ self   |-> r.self,
          loaded |-> IF r.ret THEN TRUE ELSE loaded,
          ok     |-> r.ret,
          ret    |-> PyNone ]

\* reload_model(): `if load_model():` tests the return value of load_model()
reload_model(self, loaded, model_data) ==
    LET old_version == IF loaded THEN self.model_version ELSE "None"
        l == api_load_model(self, loaded, model_data)
    IN  [ self   |-> l.self,
          loaded |-> l.loaded,
          ok     |-> l.ok,
          response |->
            IF Truthy(l.ret)
            THEN [endpoint |-> "reload", status |-> 200, success |-> TRUE,
                  old_version |-> old_version,
                  new_version |-> l.self.model_version]
            ELSE [endpoint |-> "reload", status |-> 500, success |-> FALSE] ]

\* assess_risk(): calls lists the records predict_risk was invoked on,
\* predicted what it returned
assess_risk(self, loaded, item) ==
    LET base == [endpoint |-> "assess", loaded |-> loaded, item |-> item]
        missing_fields ==
            {f \in {"clinic_name", "email"} :
                item.shape # "dict" \/ f \notin DOMAIN item.data}
        r == predict_risk(self, item)
    IN  IF ~loaded THEN
            [status |-> 503, error |-> "Model not loaded", calls |-> << >>,
             predicted |-> NoResult, used |-> UsedParts(self)] @@ base
        ELSE IF ~ItemTruthy(item) THEN
            [status |-> 400, error |-> "No data provided", calls |-> << >>,
             predicted |-> NoResult, used |-> UsedParts(self)] @@ base
        ELSE IF item.shape = "num" THEN
            \* `field not in 7` raises TypeError: the outer except
            [status |-> 500, error |-> "Internal server error", calls |-> << >>,
             predicted |-> NoResult, used |-> UsedParts(self)] @@ base
        ELSE IF missing_fields # {} THEN
            [status |-> 400, error |-> "Missing required fields", calls |-> << >>,
             predicted |-> NoResult, used |-> UsedParts(self)] @@ base
        ELSE IF r = NoResult THEN
            [status |-> 500, error |-> "Prediction failed", calls |-> <<item>>,
             predicted |-> r, used |-> UsedParts(self)] @@ base
        ELSE
            [status |-> 200, error |-> "", calls |-> <<item>>,
             predicted |-> r, used |-> UsedParts(self)] @@ base

\* result['batch_index'] = i
WithBatchIndex(r, i) ==
    [f \in DOMAIN r \cup {"batch_index"} |->
        IF f = "batch_index" THEN i ELSE r[f]]

\* the for loop of batch_assess_risk.  A record predict_risk answers None
\* for goes to errors with clinic_data.get('clinic_name', 'Unknown'); on a
\* non-mapping that .get raises, the inner except handler runs the same .get
\* and raises again, and the exception leaves the loop for the outer except:
\* the loop stops at the first non-mapping item.
batch_loop(self, clinics) ==
    LET n == Len(clinics)
        raises(i) == predict_risk(self, clinics[i]) = NoResult
                     /\ clinics[i].shape # "dict"
        stop == IF \E i \in 1..n : raises(i)
                THEN CHOOSE i \in 1..n :
                        raises(i) /\ \A j \in 1..(i - 1) : ~raises(j)
                ELSE n + 1
        positions == [i \in 1..(stop - 1) |-> i]
        scored == SelectSeq(positions,
                     LAMBDA i : predict_risk(self, clinics[i]) # NoResult)
        failed == SelectSeq(positions,
                     LAMBDA i : predict_risk(self, clinics[i]) = NoResult)
    IN  [ aborted |-> stop <= n,
          results |-> [k \in 1..Len(scored) |->
                         WithBatchIndex(predict_risk(self, clinics[scored[k]]),
                                        scored[k] - 1)],
          errors  |-> [k \in 1..Len(failed) |->
                         [batch_index |-> failed[k] - 1,
                          error |-> "Prediction failed",
                          clinic_name |->
                             Get(clinics[failed[k]].data, "clinic_name",
                                 PyStr("Unknown"))]],
          calls   |-> SubSeq(clinics, 1, IF stop <= n THEN stop ELSE n) ]

\* batch_assess_risk(): body is the parsed JSON body, null or {'clinics': [...]}
batch_assess_risk(self, loaded, body) ==
    LET base == [endpoint |-> "batch", loaded |-> loaded, body |-> body,
                 used |-> UsedParts(self)]
        none == [results |-> << >>, errors |-> << >>, calls |-> << >>,
                 summary |-> [total_processed |-> 0, successful |-> 0, failed |-> 0]]
        run  == batch_loop(self, body.clinics)
    IN  IF ~loaded THEN
            [status |-> 503, error |-> "Model not loaded"] @@ none @@ base
        ELSE IF body.shape = "null" THEN
            \* data.get on None raises AttributeError: the outer except
            [status |-> 500, error |-> "Internal server error"] @@ none @@ base
        ELSE IF Len(body.clinics) = 0 THEN
            [status |-> 400, error |-> "No clinics provided"] @@ none @@ base
        ELSE IF Len(body.clinics) > MaxClinics THEN
            [status |-> 400, error |-> "Too many clinics"] @@ none @@ base
        ELSE IF run.aborted THEN
            [status |-> 500, error |-> "Internal server error",
             calls |-> run.calls] @@ none @@ base
        ELSE
            [status |-> 200, error |-> "",
             results |-> run.results, errors |-> run.errors, calls |-> run.calls,
             summary |-> [total_processed |-> Len(body.clinics),
                          successful |-> Len(run.results),
                          failed |-> Len(run.errors)]] @@ base

\* model_info()
model_info(self, loaded) ==
    IF ~loaded
    THEN [endpoint |-> "info", loaded |-> loaded, status |-> 503,
          error |-> "Model not loaded", calls |-> << >>]
    ELSE [endpoint |-> "info", loaded |-> loaded, status |-> 200, error |-> "",
          calls |-> << >>,
          model_version |-> self.model_version,
          feature_columns |-> self.feature_columns]

-----------------------------------------------------------------------------
(* The API process: import-time load, then requests one at a time (each   *)
(* handler runs to its answer before the next one starts)                 *)

SeqsUpTo(S, n) == UNION {[1..k -> S] : k \in 0..n}

Repeat(x, n) == [i \in 1..n |-> x]

BatchBodies ==
    {[shape |-> "null", clinics |-> << >>]}
    \cup { [shape |-> "dict", clinics |-> c] :
             c \in SeqsUpTo(BatchItems, MaxBatchLen)
                   \cup {Repeat(OkLow, MaxClinics), Repeat(OkLow, MaxClinics + 1)} }

NoLoad == [ran |-> FALSE, ret |-> FALSE]

ApiInit ==
    /\ risk_model = NewClinicRiskModel
    /\ model_loaded = FALSE
    /\ booted = FALSE
    /\ response = NoResponse
    /\ load_log = NoLoad

\* lines 40-41: load_model() runs once while the module is imported
Startup ==
    /\ ~booted
    /\ \E model_data \in Artifacts :
          LET l == api_load_model(risk_model, model_loaded, model_data)
          IN  /\ risk_model' = l.self
              /\ model_loaded' = l.loaded
              /\ load_log' = [ran |-> TRUE, ret |-> l.ok]
    /\ booted' = TRUE
    /\ UNCHANGED response
    /\ UNCHANGED <<scoreVars, threadVars, behaviorVars, featureVars, trainVars>>

\* POST /reload-model
ReloadModel ==
    /\ booted
    /\ response = NoResponse
    /\ \E model_data \in Artifacts :
          LET l == reload_model(risk_model, model_loaded, model_data)
          IN  /\ risk_model' = l.self
              /\ model_loaded' = l.loaded
              /\ response' = l.response
              /\ load_log' = [ran |-> TRUE, ret |-> l.ok]
    /\ UNCHANGED booted
    /\ UNCHANGED <<scoreVars, threadVars, behaviorVars, featureVars, trainVars>>

\* POST /assess-risk
AssessRisk ==
    /\ booted
    /\ response = NoResponse
    /\ \E item \in Items : response' = assess_risk(risk_model, model_loaded, item)
    /\ UNCHANGED <<risk_model, model_loaded, booted, load_log>>
    /\ UNCHANGED <<scoreVars, threadVars, behaviorVars, featureVars, trainVars>>

\* POST /batch-assess
BatchAssess ==
    /\ booted
    /\ response = NoResponse
    /\ \E body \in BatchBodies :
          response' = batch_assess_risk(risk_model, model_loaded, body)
    /\ UNCHANGED <<risk_model, model_loaded, booted, load_log>>
    /\ UNCHANGED <<scoreVars, threadVars, behaviorVars, featureVars, trainVars>>

\* GET /model-info
ModelInfo ==
    /\ booted
    /\ response = NoResponse
    /\ response' = model_info(risk_model, model_loaded)
    /\ UNCHANGED <<risk_model, model_loaded, booted, load_log>>
    /\ UNCHANGED <<scoreVars, threadVars, behaviorVars, featureVars, trainVars>>

\* the answer leaves the process; the next request starts
Respond ==
    /\ response # NoResponse
    /\ response' = NoResponse
    /\ UNCHANGED <<risk_model, model_loaded, booted, load_log>>
    /\ UNCHANGED <<scoreVars, threadVars, behaviorVars, featureVars, trainVars>>

ApiNext ==
    Startup \/ ReloadModel \/ AssessRisk \/ BatchAssess \/ ModelInfo \/ Respond

LoaderIdle == [pc |-> "idle", model_data |-> [readable |-> FALSE, id |-> NoBundle, keys |-> {}]]

PredictorIdle ==
    [pc |-> "idle", item |-> OkLow, seen |-> UsedParts(NewClinicRiskModel),
     ret |-> NoResult]

ThreadsIdle ==
    /\ loader = LoaderIdle
    /\ predictor = PredictorIdle

\* before engineer_features has run
NoFeatures == [ran |-> FALSE, cols |-> << >>]

\* the feature-engineering variables at rest
FeaturesIdle ==
    /\ trained_columns = << >>
    /\ features = NoFeatures

\* no training script has run
TrainerIdle == trainer = [pc |-> "idle"]

\* the scoring variables at rest
ScoreIdle ==
    /\ clf_classes = TrainedClasses
    /\ risk_proba = Classify(OkLow)
    /\ clinic_data = OkLow.data
    /\ result = NoResult
    /\ simple_result = NoResult

InitScore ==
    ScoreInit /\ ApiInit /\ ThreadsIdle /\ BehaviorIdle /\ FeaturesIdle /\ TrainerIdle

SpecScore == InitScore /\ [][ScoreNext]_vars

InitApi ==
    ApiInit /\ ScoreIdle /\ ThreadsIdle /\ BehaviorIdle /\ FeaturesIdle /\ TrainerIdle

SpecApi == InitApi /\ [][ApiNext]_vars

-----------------------------------------------------------------------------
(* The API process with its threads interleaved: Flask serves each request *)
(* on its own thread, so the assignments of load_model and the reads of    *)
(* predict_risk are separate steps.  The artifact is a complete bundle.    *)

CompleteArtifacts ==
    {a \in Artifacts : a.readable /\ a.keys = BundleKeys}

\* joblib.load(filepath) of the import-time load or of a /reload-model request
LoadBegin ==
    /\ loader.pc = "idle"
    /\ predictor.pc = "idle" \/ booted
    /\ \E model_data \in CompleteArtifacts :
          loader' = [pc |-> "assign", i |-> 1, model_data |-> model_data]
    /\ UNCHANGED <<risk_model, model_loaded, booted, response, load_log, predictor>>
    /\ UNCHANGED <<scoreVars, behaviorVars, featureVars, trainVars>>

\* one assignment self.<field> = model_data[...]
LoadAssign ==
    /\ loader.pc = "assign"
    /\ LET st == load_step(risk_model, loader.model_data, loader.i)
       IN  /\ risk_model' = st.self
           /\ loader' = IF st.done
                        THEN [pc |-> "return", ret |-> st.ret,
                              model_data |-> loader.model_data]
                        ELSE [loader EXCEPT !.i = loader.i + 1]
    /\ UNCHANGED <<model_loaded, booted, response, load_log, predictor>>
    /\ UNCHANGED <<scoreVars, behaviorVars, featureVars, trainVars>>

\* back in load_model() of api_integration: model_loaded = True on success
LoadReturn ==
    /\ loader.pc = "return"
    /\ model_loaded' = IF loader.ret THEN TRUE ELSE model_loaded
    /\ load_log' = [ran |-> TRUE, ret |-> loader.ret]
    /\ booted' = TRUE
    /\ loader' = LoaderIdle
    /\ UNCHANGED <<risk_model, response, predictor>>
    /\ UNCHANGED <<scoreVars, behaviorVars, featureVars, trainVars>>

\* a request passed `if not model_loaded` and enters predict_risk: line 391
PredictBegin ==
    /\ booted
    /\ model_loaded
    /\ predictor.pc = "idle"
    /\ \E item \in {OkLow, OkHigh} :
          predictor' =
             IF risk_model.model = NoBundle
             THEN [PredictorIdle EXCEPT !.pc = "done", !.item = item]
             ELSE [PredictorIdle EXCEPT !.pc = "columns", !.item = item]
    /\ UNCHANGED <<apiVars, loader>>
    /\ UNCHANGED <<scoreVars, behaviorVars, featureVars, trainVars>>

\* lines 406-411: the columns are aligned to self.feature_columns
PredictColumns ==
    /\ predictor.pc = "columns"
    /\ predictor' = [predictor EXCEPT !.pc = "encode",
                        !.seen.feature_columns = risk_model.feature_columns]
    /\ UNCHANGED <<apiVars, loader>>
    /\ UNCHANGED <<scoreVars, behaviorVars, featureVars, trainVars>>

\* line 414: _encode_categorical_features reads self.label_encoders
PredictEncode ==
    /\ predictor.pc = "encode"
    /\ predictor' = [predictor EXCEPT !.pc = "classify",
                        !.seen.label_encoders = risk_model.label_encoders]
    /\ UNCHANGED <<apiVars, loader>>
    /\ UNCHANGED <<scoreVars, behaviorVars, featureVars, trainVars>>

\* lines 417-418: self.model.predict and self.model.predict_proba
PredictClassify ==
    /\ predictor.pc = "classify"
    /\ predictor' = [predictor EXCEPT !.pc = "result",
                        !.seen.model = risk_model.model]
    /\ UNCHANGED <<apiVars, loader>>
    /\ UNCHANGED <<scoreVars, behaviorVars, featureVars, trainVars>>

\* lines 420-441: the result dict, with self.model_version as it is now
PredictResult ==
    /\ predictor.pc = "result"
    /\ predictor' = [predictor EXCEPT !.pc = "done",
                        !.ret = predict_risk(risk_model, predictor.item)]
    /\ UNCHANGED <<apiVars, loader>>
    /\ UNCHANGED <<scoreVars, behaviorVars, featureVars, trainVars>>

\* the handler answers and the thread ends
PredictDone ==
    /\ predictor.pc = "done"
    /\ predictor' = PredictorIdle
    /\ UNCHANGED <<apiVars, loader>>
    /\ UNCHANGED <<scoreVars, behaviorVars, featureVars, trainVars>>

ReloadNext ==
    \/ LoadBegin \/ LoadAssign \/ LoadReturn
    \/ PredictBegin \/ PredictColumns \/ PredictEncode \/ PredictClassify
    \/ PredictResult \/ PredictDone

InitBehavior ==
    BehaviorInit /\ ApiInit /\ ScoreIdle /\ ThreadsIdle /\ FeaturesIdle /\ TrainerIdle

SpecBehavior == InitBehavior /\ [][BehaviorNext]_vars

InitReload ==
    ApiInit /\ ScoreIdle /\ ThreadsIdle /\ BehaviorIdle /\ FeaturesIdle /\ TrainerIdle

SpecReload == InitReload /\ [][ReloadNext]_vars

-----------------------------------------------------------------------------
(* Feature engineering: ClinicRiskModel.engineer_features, the column       *)
(* alignment and encoding of predict_risk, and _generate_risk_flags.  A     *)
(* record carries clinic_name and email and any subset of the optional      *)
(* fields below.                                                            *)

\* datetime.now().year
CurrentYear == 2026

\* the values an optional field of a record takes (Absent: the key is missing)
RecordChoices(k) ==
    CASE k = "website" ->
            {Absent, PyNone, PyStr(""), PyStr("https://x.com")}
      [] k = "license_number" ->
            {Absent, PyNone, PyStr(""), PyStr("LIC123456"), PyStr("lic-1")}
      [] k = "accreditation" ->
            {Absent, PyStr(""), PyStr("ACC-1")}
      [] k = "year_established" ->
            {Absent, PyNone, PyNum(2005), PyNum(CurrentYear)}
      [] k = "number_of_doctors" ->
            {Absent, PyNone, PyNum(1), PyNum(8)}
      [] k = "login_frequency" ->
            {Absent, PyNone, PyNum(7)}
      [] k = "is_solo_practice" ->
            \* a caller-supplied key with the name of an engineered feature
            {Absent, PyBool(TRUE)}

Records ==
    { Identity @@ MkDict([ website           |-> w,
                           license_number    |-> l,
                           accreditation     |-> a,
                           year_established  |-> y,
                           number_of_doctors |-> d,
                           login_frequency   |-> f,
                           is_solo_practice  |-> s ]) :
        w \in RecordChoices("website"),
        l \in RecordChoices("license_number"),
        a \in RecordChoices("accreditation"),
        y \in RecordChoices("year_established"),
        d \in RecordChoices("number_of_doctors"),
        f \in RecordChoices("login_frequency"),
        s \in RecordChoices("is_solo_practice") }

\* the records that carry a submission timestamp, every weekday (Monday is
\* 0) and hour of the day; <<"time", d, h>> is the parsed timestamp
TimedRecords ==
    { Identity @@ [submission_timestamp |-> <<"time", d, h>>] :
        d \in 0..6, h \in 0..23 }

\* Series.between(left, right): left <= x and x <= right
between(x, left, right) == left <= x /\ x <= right

\* len(s) of the strings the records hold
StrLen(s) ==
    CASE s = "" -> 0
      [] s = "Clinic A" -> 8
      [] s = "a@clinic.ph" -> 11
      [] s = "https://x.com" -> 13
      [] s = "LIC123456" -> 9
      [] s = "lic-1" -> 5
      [] s = "ACC-1" -> 5

\* str.contains(r'\d')
HasDigit(s) == s \in {"LIC123456", "lic-1", "ACC-1"}

\* str.match(r'^[A-Z0-9]{6,20}$')
LicenseFormatValid(s) == s = "LIC123456"

\* _classify_email_domain
classify_email_domain(email) ==
    IF email = "a@clinic.ph" THEN "professional" ELSE "unknown"

\* column.fillna('') of a text column
Text(record, k) == IF record[k][1] = "str" THEN record[k][2] ELSE ""

\* column.notna().astype(int)
NotNa(record, k) == PyNum(Ind(record[k] # PyNone))

\* the features a column contributes when the record has it, none otherwise
EmptyFeatures == [n \in {} |-> PyNum(0)]

Present(record, k, block) == IF k \in DOMAIN record THEN block ELSE EmptyFeatures

\* the submission pattern columns, written into df and copied to features
timing_features(record) ==
    LET day  == record["submission_timestamp"][2]
        hour == record["submission_timestamp"][3]
    IN  Present(record, "submission_timestamp",
            [ submission_hour        |-> PyNum(hour),
              submission_day_of_week |-> PyNum(day),
              is_weekend_submission  |-> PyNum(Ind(day \in {5, 6})),
              is_business_hours      |-> PyNum(Ind(between(hour, 9, 17))),
              is_late_night          |-> PyNum(Ind(between(hour, 22, 6))) ])

\* engineer_features(df) on the one-row frame of a record: feature name -> value
engineer_features(record) ==
    LET year    == IF record["year_established"] = PyNone THEN CurrentYear
                   ELSE record["year_established"][2]
        years_in_business == CurrentYear - year
        doctors == record["number_of_doctors"]
        logins  == record["login_frequency"]
    IN  timing_features(record)
        @@ Present(record, "clinic_name",
            [ clinic_name_length  |-> PyNum(StrLen(Text(record, "clinic_name"))),
              has_numbers_in_name |-> PyNum(Ind(HasDigit(Text(record, "clinic_name")))) ])
        @@ Present(record, "website",
            [ has_website    |-> NotNa(record, "website"),
              website_length |-> PyNum(StrLen(Text(record, "website"))) ])
        @@ Present(record, "email",
            [ email_length      |-> PyNum(StrLen(Text(record, "email"))),
              email_domain_type |-> PyStr(classify_email_domain(Text(record, "email"))) ])
        @@ Present(record, "license_number",
            [ has_license          |-> NotNa(record, "license_number"),
              license_length       |-> PyNum(StrLen(Text(record, "license_number"))),
              license_format_valid |->
                  PyNum(Ind(LicenseFormatValid(Text(record, "license_number")))) ])
        @@ Present(record, "accreditation",
            [ has_accreditation    |-> NotNa(record, "accreditation"),
              accreditation_length |-> PyNum(StrLen(Text(record, "accreditation"))) ])
        @@ Present(record, "year_established",
            [ years_in_business |-> PyNum(years_in_business),
              is_new_business   |-> PyNum(Ind(years_in_business < 1)),
              is_established    |-> PyNum(Ind(years_in_business >= 5)) ])
        @@ Present(record, "number_of_doctors",
            [ number_of_doctors |-> IF doctors = PyNone THEN PyNum(1) ELSE doctors,
              is_solo_practice  |-> PyNum(Ind(doctors = PyNum(1))),
              is_large_clinic   |-> PyNum(Ind(doctors # PyNone /\ doctors[2] > 10)) ])
        @@ Present(record, "login_frequency",
            [ login_frequency |-> logins,
              is_active_user  |-> PyNum(Ind(logins # PyNone /\ logins[2] > 5)) ])

\* df.iloc[0] after engineer_features ran: engineer_features writes its
\* features into a frame of its own; into df go the submission pattern
\* columns and df['years_in_business'] only
raw_row(record) ==
    record
    @@ timing_features(record)
    @@ (IF "year_established" \in DOMAIN record
        THEN [years_in_business |-> engineer_features(record)["years_in_business"]]
        ELSE EmptyFeatures)

\* _generate_risk_flags(clinic_data)
generate_risk_flags(row) ==
    LET names == << "NO_WEBSITE", "NO_LICENSE", "INVALID_LICENSE_FORMAT",
                    "NO_ACCREDITATION", "NEW_BUSINESS", "SOLO_PRACTICE" >>
        holds == [ n \in {names[i] : i \in 1..6} |->
            CASE n = "NO_WEBSITE" -> ~Truthy(Get(row, "has_website", PyBool(TRUE)))
              [] n = "NO_LICENSE" -> ~Truthy(Get(row, "has_license", PyBool(TRUE)))
              [] n = "INVALID_LICENSE_FORMAT" ->
                    ~Truthy(Get(row, "license_format_valid", PyBool(TRUE)))
              [] n = "NO_ACCREDITATION" ->
                    ~Truthy(Get(row, "has_accreditation", PyBool(TRUE)))
              [] n = "NEW_BUSINESS" -> Truthy(Get(row, "is_new_business", PyBool(FALSE)))
              [] n = "SOLO_PRACTICE" -> Truthy(Get(row, "is_solo_practice", PyBool(FALSE))) ]
    IN  Triggered(names, holds)

\* lines 405-411: a training column the record did not produce is added as
\* 0, then the frame is cut to self.feature_columns, in that order
align_columns(X, columns) ==
    [i \in 1..Len(columns) |->
        [ name  |-> columns[i],
          value |-> IF columns[i] \in DOMAIN X THEN X[columns[i]] ELSE PyNum(0) ]]

\* the encoding that leaves a null where it finds one
encode_keeping_null(v) ==
    IF v[1] = "str" THEN <<"code", v[2]>> ELSE v

\* one cell through _encode_categorical_features: a text cell becomes the
\* label code of its class; a null cell sits in an object column, is filled
\* with 'unknown' and becomes the code of that class (0 for the encoder
\* fitted on the spot); the closing fillna(0) turns any other null into 0
encode_value(v) ==
    IF v[1] = "str" THEN <<"code", v[2]>>
    ELSE IF v = PyNone THEN PyNum(0)
    ELSE v

\* _encode_categorical_features(X)
encode_categorical_features(X) ==
    [i \in DOMAIN X |-> [name |-> X[i].name, value |-> encode_value(X[i].value)]]

\* predict_risk on a record, with the matrix handed to the classifier
predict_risk_record(classes, proba, record, columns, version) ==
    LET X         == engineer_features(record)
        X_encoded == encode_categorical_features(align_columns(X, columns))
        row       == raw_row(record)
    IN  [ risk_flags |-> generate_risk_flags(row), matrix |-> X_encoded ]
        @@ predict_risk_result(classes, proba, row, version)

\* the row the training frame holds for a record: the frame has every
\* column, and a cell the record has no value for is null
training_row(record) ==
    [ k \in { "clinic_name", "website", "email", "license_number",
              "accreditation", "year_established", "number_of_doctors",
              "login_frequency" } |-> Get(record, k, PyNone) ]

\* engineer_features in training order, for training data with every field
AllFeatureNames ==
    << "clinic_name_length", "has_numbers_in_name", "has_website",
       "website_length", "email_length", "email_domain_type", "has_license",
       "license_length", "license_format_valid", "has_accreditation",
       "accreditation_length", "years_in_business", "is_new_business",
       "is_established", "number_of_doctors", "is_solo_practice",
       "is_large_clinic", "login_frequency", "is_active_user" >>

\* feature_columns is X.columns.tolist() of the training frame (line 298):
\* the columns of training data with every field, with a phone column and no
\* business fields, with year_established alone
ColumnLists ==
    { AllFeatureNames,
      << "has_website", "website_length", "has_phone", "phone_length",
         "phone_is_valid", "email_length", "email_domain_type", "has_license",
         "license_length", "license_format_valid", "login_frequency",
         "is_active_user" >>,
      << "years_in_business", "is_new_business", "is_established" >> }

FeaturesInit ==
    /\ clf_classes = TrainedClasses
    /\ risk_proba \in {Classify(OkLow), Classify(OkHigh)}
    /\ clinic_data \in Records \cup TimedRecords
    /\ result = NoResult
    /\ simple_result = NoResult
    /\ trained_columns \in ColumnLists
    /\ features = NoFeatures

\* X = self.engineer_features(df)
EngineerFeatures ==
    /\ ~features.ran
    /\ features' = [ran |-> TRUE, cols |-> engineer_features(clinic_data)]
    /\ UNCHANGED <<scoreVars, trained_columns>>
    /\ UNCHANGED <<apiVars, threadVars, behaviorVars, trainVars>>

\* ClinicRiskModel.predict_risk(clinic_data), from the record to the result
PredictRiskRecord ==
    /\ result = NoResult
    /\ result' = predict_risk_record(clf_classes, risk_proba, clinic_data,
                                     trained_columns, "1.0")
    /\ UNCHANGED <<clf_classes, risk_proba, clinic_data, simple_result>>
    /\ UNCHANGED <<apiVars, threadVars, behaviorVars, featureVars, trainVars>>

FeaturesNext == EngineerFeatures \/ PredictRiskRecord \/ SimpleAssessRisk

InitFeatures ==
    FeaturesInit /\ ApiInit /\ ThreadsIdle /\ BehaviorIdle /\ TrainerIdle

SpecFeatures == InitFeatures /\ [][FeaturesNext]_vars

-----------------------------------------------------------------------------
(* Training: ClinicRiskModel.train_model followed by save_model, and        *)
(* behavior_training.main.  The data is described by what the code looks    *)
(* at: whether it could be read, how many labelled samples it has, whether  *)
(* all its labels are one class.  A candidate's cross-validation answers a  *)
(* mean score (in halves: 0, 0.5, 1), nan when part of its fits failed, or  *)
(* raises.                                                                  *)

\* len(df) < 50 in behavior_training.main
MinSamples == 50

CvOutcomes == { <<"raise">>, <<"nan">>, <<"score", 0>>, <<"score", 1>>, <<"score", 2>> }

Datasets ==
    { [found |-> TRUE, samples |-> n, single_class |-> b] :
        n \in {MinSamples - 20, 4 * MinSamples}, b \in BOOLEAN }
    \cup { [found |-> FALSE, samples |-> 0, single_class |-> FALSE] }

\* train_model(): what it returns and what it leaves in self.model.  scores
\* holds the outcome of cross_val_score for RandomForest, GradientBoosting,
\* LogisticRegression, the order of the models dict.
train_model(data, scores) ==
    LET names == <<"RandomForest", "GradientBoosting", "LogisticRegression">>
        \* if avg_score > best_score: a nan is greater than nothing
        step(best, i) ==
            IF scores[i][1] = "score" /\ scores[i][2] > best.score
            THEN [score |-> scores[i][2], name |-> names[i]]
            ELSE best
        best == step(step(step([score |-> 0, name |-> "none"], 1), 2), 3)
    IN  IF ~data.found THEN [ret |-> "false", model |-> "none"]
        ELSE IF \E i \in 1..3 : scores[i] = <<"raise">>
             THEN [ret |-> "raised", model |-> "none"]
        ELSE IF best.name = "none"
             \* best_model is None: best_model.fit raises AttributeError
             THEN [ret |-> "raised", model |-> "none"]
        ELSE [ret |-> "true", model |-> best.name]

\* one class of labels: GradientBoosting and LogisticRegression refuse to
\* fit, so their cross-validation has no score
InitTrain ==
    /\ trainer \in
          { [pc |-> "ready", data |-> d, scores |-> s, ret |-> "none",
             model |-> "none", bundle |-> "none", behavior |-> "none"] :
              d \in Datasets, s \in [1..3 -> CvOutcomes] }
    /\ trainer.data.single_class =>
          \A i \in 2..3 : trainer.scores[i][1] # "score"
    /\ ScoreIdle /\ ApiInit /\ ThreadsIdle /\ BehaviorIdle /\ FeaturesIdle

\* risk_model.train_model()
TrainModel ==
    /\ trainer.pc = "ready" /\ trainer.ret = "none"
    /\ LET r == train_model(trainer.data, trainer.scores)
       IN  trainer' = [trainer EXCEPT !.ret = r.ret, !.model = r.model]
    /\ UNCHANGED <<scoreVars, apiVars, threadVars, behaviorVars, featureVars>>

\* risk_model.save_model(), which the scripts call when train_model()
\* returned True; it refuses when self.model is None
SaveModel ==
    /\ trainer.pc = "ready" /\ trainer.ret = "true" /\ trainer.bundle = "none"
    /\ trainer' = [trainer EXCEPT
                      !.bundle = IF trainer.model = "none" THEN "refused"
                                 ELSE trainer.model]
    /\ UNCHANGED <<scoreVars, apiVars, threadVars, behaviorVars, featureVars>>

\* behavior_training.main() with --data: too few samples end it at once; with
\* one class evaluate_model reads y_proba[:, 1] of a one-column array and
\* raises before joblib.dump; a file that cannot be read raises in read_csv
BehaviorTraining ==
    /\ trainer.pc = "ready" /\ trainer.behavior = "none"
    /\ trainer' = [trainer EXCEPT
                      !.behavior =
                          IF ~trainer.data.found THEN "raised"
                          ELSE IF trainer.data.samples < MinSamples THEN "refused"
                          ELSE IF trainer.data.single_class THEN "raised"
                          ELSE "written"]
    /\ UNCHANGED <<scoreVars, apiVars, threadVars, behaviorVars, featureVars>>

TrainNext == TrainModel \/ SaveModel \/ BehaviorTraining

SpecTrain == InitTrain /\ [][TrainNext]_vars

-----------------------------------------------------------------------------
(* Claims about scoring, checked under SpecScore *)

\* the fixed thresholds: <= 0.3 LOW, <= 0.7 MEDIUM, > 0.7 HIGH
LevelOfScore(score) ==
    IF score <= 30 * ProbDen THEN "LOW"
    ELSE IF score <= 70 * ProbDen THEN "MEDIUM"
    ELSE "HIGH"

ScoreSamples ==
    {0, 30 * ProbDen, 30 * ProbDen + 1, 70 * ProbDen, 70 * ProbDen + 1, 100 * ProbDen}

\* the has_license input of _recommend_account_status: clinic_data.get('has_license', False)
HasLicenseInput(data) == Truthy(Get(data, "has_license", PyBool(FALSE)))

DecisionTable(risk_level, has_license) ==
    IF risk_level = "HIGH" THEN "RESTRICTED"
    ELSE IF risk_level = "LOW" /\ has_license THEN "ACTIVE_LIMITED"
    ELSE "VERIFICATION_REQUIRED"

\* C1: _recommend_account_status is a function of (risk_level, has_license)
\* alone: the status of every assessment predict_risk returns is the decision
\* table's entry (HIGH -> RESTRICTED; LOW with has_license -> ACTIVE_LIMITED;
\* otherwise VERIFICATION_REQUIRED), and for every level the status is the
\* same whatever risk_score is passed.
C1_AccountStatusTable ==
    result.kind = "assessment" =>
        /\ result.account_status =
              DecisionTable(result.risk_level, HasLicenseInput(clinic_data))
        /\ \A lvl \in Labels : \A s \in ScoreSamples :
              recommend_account_status(s, lvl, clinic_data) =
                 DecisionTable(lvl, HasLicenseInput(clinic_data))

C1_Witness ==
    /\ result.kind = "assessment"
    /\ result.risk_level = "LOW"
    /\ HasLicenseInput(clinic_data)
    /\ result.account_status = "ACTIVE_LIMITED"

\* C2: in every assessment of predict_risk and of simple_api.assess_risk,
\* risk_level is the level the fixed thresholds give for risk_score: LOW
\* exactly when risk_score <= 0.3, MEDIUM exactly when 0.3 < risk_score <= 0.7,
\* HIGH exactly when risk_score > 0.7.  Stated for predict_risk on the
\* three-class models alone, where the score has both of its terms.
C2_ThresholdLaw ==
    /\ (result.kind = "assessment" /\ Len(clf_classes) = 3) =>
          result.risk_level = LevelOfScore(result.risk_score)
    /\ simple_result.kind = "assessment" =>
          simple_result.risk_level = LevelOfScore(simple_result.risk_score)

\* C3: with the three classes HIGH, LOW, MEDIUM, predict_risk's risk_score is
\* 0.7 * P(HIGH) + 0.3 * P(MEDIUM).
C3_WeightedScore ==
    (result.kind = "assessment" /\ Len(clf_classes) = 3) =>
        result.risk_score =
            70 * ProbOf(clf_classes, risk_proba, "HIGH")
          + 30 * ProbOf(clf_classes, risk_proba, "MEDIUM")

-----------------------------------------------------------------------------
(* Claims about the API process: SpecReload (C4), SpecApi (C5-C8, C10) *)

\* C4: every predict_risk call that ran to its result used a classifier,
\* label encoders and feature_columns of one and the same bundle, whatever
\* reload ran beside it.
C4_ReloadAtomicity ==
    (predictor.pc = "done" /\ predictor.ret.kind = "assessment") =>
        /\ predictor.seen.model = predictor.seen.feature_columns
        /\ predictor.seen.model = predictor.seen.label_encoders

\* C5: a ClinicRiskModel.load_model call that returns False leaves model,
\* scaler, label_encoders, feature_columns and model_version as they were.
C5_FailedLoadKeepsBundle ==
    [][(load_log'.ran /\ ~load_log'.ret) => risk_model' = risk_model]_vars

\* C6: reload-model answers success exactly when the bundle was loaded.
C6_ReloadReportsOutcome ==
    response.endpoint = "reload" => (response.success <=> load_log.ret)

\* C7: with model_loaded false, assess-risk, batch-assess and model-info
\* answer 503 and call predict_risk on nothing; and whenever model_loaded is
\* true the classifier is there together with its own feature_columns.
C7_NoModelNoScoring ==
    /\ (response.endpoint \in {"assess", "batch", "info"} /\ ~response.loaded) =>
          response.status = 503 /\ response.calls = << >>
    /\ model_loaded =>
          /\ risk_model.model # NoBundle
          /\ risk_model.feature_columns = risk_model.model

\* C8: for a well-formed profile, predict_risk and assess-risk answer a
\* structured RiskAssessment even when engineering, encoding or the
\* classifier raises, and the verdict given on such an error is never
\* LOW / ACTIVE_LIMITED.
C8_PredictTotal ==
    (response.endpoint = "assess" /\ response.loaded /\ WellFormed(response.item)) =>
        /\ response.status = 200
        /\ response.predicted.kind = "assessment"
        /\ response.item.err_at # "none" =>
              /\ response.predicted.risk_level # "LOW"
              /\ response.predicted.account_status # "ACTIVE_LIMITED"

\* an item batch-assess cannot score: a non-mapping, or a mapping with bad values
Malformed(item) == item.shape # "dict" \/ item.err_at # "none"

\* a batch the handler accepts: 1 to 100 items, with a model loaded
AcceptedBatch(resp) ==
    /\ resp.endpoint = "batch"
    /\ resp.loaded
    /\ resp.body.shape = "dict"
    /\ Len(resp.body.clinics) \in 1..MaxClinics

WithoutIndex(r) == [f \in DOMAIN r \ {"batch_index"} |-> r[f]]

\* C10: an accepted batch is answered 200 with total_processed = its length;
\* every malformed item has exactly one entry in errors, carrying its index;
\* and the results are those of the same batch without the malformed items.
C10_BatchIsolation ==
    AcceptedBatch(response) =>
        LET clinics == response.body.clinics
            sound == SelectSeq(clinics, LAMBDA item : ~Malformed(item))
            alone == batch_loop(risk_model, sound).results
        IN  /\ response.status = 200
            /\ response.summary.total_processed = Len(clinics)
            /\ \A i \in 1..Len(clinics) :
                  Malformed(clinics[i]) =>
                     Cardinality({k \in 1..Len(response.errors) :
                                    response.errors[k].batch_index = i - 1}) = 1
            /\ [k \in 1..Len(response.results) |-> WithoutIndex(response.results[k])]
                  = [k \in 1..Len(alone) |-> WithoutIndex(alone[k])]

-----------------------------------------------------------------------------
(* Claims about the behaviour classifier, checked under SpecBehavior *)

FailClosed(v) ==
    /\ v.isHuman = FALSE
    /\ v.confidence = 0
    /\ v.probabilities = [human |-> 0, bot |-> One]

\* the run met an error: the artifact did not load, the input did not parse
\* or held no snapshot, or something raised inside the prediction
ErrorRun(v) ==
    \/ v.path # "ok"
    \/ stdin.kind # "snapshot"
    \/ ~SnapshotTruthy(stdin.snapshot)
    \/ stdin.snapshot.shape # "dict"
    \/ v.cli = "learned" /\
          \/ ~behavior_model.readable
          \/ behavior_model.raises # "none"
          \/ ~({"model", "scaler"} \subseteq behavior_model.keys)

\* C9: every verdict printed on an error path of behavior_inference.py or
\* mock_inference.py is isHuman = false, confidence 0, probabilities
\* {human: 0, bot: 1}.
C9_FailClosed ==
    (verdict.cli # "none" /\ ErrorRun(verdict)) => FailClosed(verdict.out)

C9_Witness ==
    /\ verdict.cli = "learned"
    /\ verdict.path = "predict_error"
    /\ behavior_model.raises = "model"
    /\ stdin.kind = "snapshot"
    /\ FailClosed(verdict.out)

-----------------------------------------------------------------------------
(* Claims about batch accounting and input validation, under SpecApi *)

\* the number of entries of a results or errors list carrying batch_index i
EntriesAt(entries, i) ==
    Cardinality({k \in 1..Len(entries) : entries[k].batch_index = i})

\* C11: a batch that is empty or longer than 100 items is rejected before
\* any item is scored; for an accepted batch of n items each index 0..n-1
\* appears exactly once across results and errors, and
\* total_processed = n = successful + failed.
C11_BatchAccounting ==
    (response.endpoint = "batch" /\ response.loaded /\ response.body.shape = "dict") =>
        LET n == Len(response.body.clinics)
        IN  /\ (n = 0 \/ n > MaxClinics) =>
                  response.status = 400 /\ response.calls = << >>
            /\ n \in 1..MaxClinics =>
                  /\ response.status = 200
                  /\ \A i \in 0..(n - 1) :
                        EntriesAt(response.results, i)
                          + EntriesAt(response.errors, i) = 1
                  /\ response.summary.total_processed = n
                  /\ response.summary.successful + response.summary.failed = n

\* C12: predict_risk is never invoked on a record (a mapping) whose
\* clinic_name or email is absent or empty: assess-risk answers such a record
\* 400 without a scoring attempt, and batch-assess never scores such an item
\* nor lists it among the results.
C12_IdentityValidated ==
    /\ response.endpoint \in {"assess", "batch"} =>
          \A k \in 1..Len(response.calls) :
             response.calls[k].shape = "dict" => WellFormed(response.calls[k])
    /\ (response.endpoint = "assess" /\ response.loaded
          /\ response.item.shape = "dict"
          /\ ~WellFormed(response.item)) => response.status = 400
    /\ AcceptedBatch(response) =>
          \A i \in 1..Len(response.body.clinics) :
             (response.body.clinics[i].shape = "dict"
                /\ ~WellFormed(response.body.clinics[i])) =>
                   EntriesAt(response.results, i - 1) = 0

-----------------------------------------------------------------------------
(* Claims about the record predict_risk decides on, under SpecScore *)

\* the profile carries a license: license_number is present and not empty
CarriesLicense(data) == Truthy(Get(data, "license_number", PyNone))

\* C14: the has_license input of the decision table is true exactly when the
\* profile carries a non-empty license_number, so a licensed profile the
\* classifier predicts LOW gets account_status ACTIVE_LIMITED.
C14_LicensedLowIsActive ==
    result.kind = "assessment" =>
        /\ HasLicenseInput(clinic_data) <=> CarriesLicense(clinic_data)
        /\ (CarriesLicense(clinic_data) /\ result.risk_level = "LOW") =>
              result.account_status = "ACTIVE_LIMITED"

-----------------------------------------------------------------------------
(* Claims about the heuristic and the learned verdicts, under SpecBehavior *)

\* snapshot.get(field, 0) of a numeric field, in hundredths
Num(snapshot, f) == Field(snapshot, f)[2]

\* every compared field of the mapping is a number (or is missing)
AllNumeric(snapshot) ==
    /\ snapshot.shape = "dict"
    /\ \A f \in {"timeOnPageSeconds", "mouseMoveRate", "keyPressRate",
                 "idleRatio", "interactionScore"} : IsNumber(Field(snapshot, f))

\* the adjusted score of the heuristic, in hundredths, as an exact sum
AdjustedScore(snapshot) ==
    50 + 30 * Ind(Num(snapshot, "timeOnPageSeconds") < 500)
       + 20 * Ind(Num(snapshot, "mouseMoveRate") < 10
                    /\ Num(snapshot, "keyPressRate") < 10)
       + 20 * Ind(Num(snapshot, "idleRatio") > 70)
       + 10 * Ind(Num(snapshot, "interactionScore") < 10)
       - 20 * Ind(Num(snapshot, "timeOnPageSeconds") > 3000
                    /\ Num(snapshot, "timeOnPageSeconds") < 30000)
       - 20 * Ind(Num(snapshot, "mouseMoveRate") > 50
                    /\ Num(snapshot, "keyPressRate") > 10)
       - 10 * Ind(Num(snapshot, "idleRatio") < 50)

Abs(x) == IF x >= 0 THEN x ELSE -x

\* C15: for every numeric snapshot (missing fields read as 0) the heuristic
\* returns isHuman = (adjusted_score < 0.6) and
\* confidence = clamp(|adjusted_score - 0.5| * 2, 0, 1), adjusted_score being
\* 0.5 plus the weights of the indicators that hold.
C15_MockFormula ==
    (verdict.cli = "mock" /\ stdin.kind = "snapshot"
       /\ SnapshotTruthy(stdin.snapshot) /\ AllNumeric(stdin.snapshot)) =>
        LET a == AdjustedScore(stdin.snapshot)
        IN  /\ verdict.path = "ok"
            /\ verdict.out.isHuman = (a < 60)
            /\ verdict.out.confidence =
                  ProbDen * (IF Abs(a - 50) * 2 > 100 THEN 100 ELSE Abs(a - 50) * 2)

\* the extreme case: under 5 s on the page with next to no mouse or key activity
Extreme(snapshot) ==
    /\ AllNumeric(snapshot)
    /\ Num(snapshot, "timeOnPageSeconds") < 500
    /\ Num(snapshot, "mouseMoveRate") < 10
    /\ Num(snapshot, "keyPressRate") < 10

\* C16: the heuristic answers isHuman = false for every snapshot with
\* timeOnPageSeconds < 5, mouseMoveRate < 0.1 and keyPressRate < 0.1, whatever
\* idleRatio and interactionScore are.
C16_ExtremeIsBot ==
    (verdict.cli = "mock" /\ stdin.kind = "snapshot"
       /\ SnapshotTruthy(stdin.snapshot) /\ Extreme(stdin.snapshot)) =>
        /\ verdict.path = "ok"
        /\ verdict.out.isHuman = FALSE

C16_Witness ==
    /\ verdict.cli = "mock"
    /\ verdict.path = "ok"
    /\ stdin.snapshot.shape = "dict"
    /\ stdin.snapshot.fields =
          MkSnapshot(PyNum(200), PyNum(0), PyNum(0), PyNum(90), PyNum(0))
    /\ verdict.out.isHuman = FALSE

\* C17: every verdict either CLI prints, on the scoring paths and on the
\* error paths, has exactly the fields isHuman (a boolean), confidence (in
\* [0, 1]), modelVersion, reason and probabilities, the last with exactly the
\* keys human and bot.
C17_VerdictShape ==
    verdict.cli # "none" =>
        /\ DOMAIN verdict.out =
              {"isHuman", "confidence", "modelVersion", "reason", "probabilities"}
        /\ verdict.out.isHuman \in BOOLEAN
        /\ verdict.out.confidence \in 0..One
        /\ DOMAIN verdict.out.probabilities = {"human", "bot"}

C17_Witness ==
    /\ verdict.cli = "mock"
    /\ verdict.path = "ok"
    /\ AdjustedScore(stdin.snapshot) > 100
    /\ verdict.out.confidence = One

\* C18: the reason of the learned classifier does not depend on the model's
\* decision: on one snapshot, any two models whose prediction succeeds give
\* the same reason string.
C18_ReasonIndependent ==
    (verdict.cli = "learned" /\ verdict.path = "ok") =>
        \A other \in BehaviorModelChoices :
           LET r == predict_human(other, stdin.snapshot)
           IN  (other.readable /\ r.path = "ok") =>
                  r.out.reason = verdict.out.reason

-----------------------------------------------------------------------------
(* Claims about features, flags and the classifier's matrix, under          *)
(* SpecFeatures                                                             *)

\* the field is missing from the profile, null or the empty string
Empty(record, k) == Get(record, k, PyNone) \in {PyNone, PyStr("")}

\* the flags of the result, as a set
FlagSet == {result.risk_flags[i] : i \in 1..Len(result.risk_flags)}

\* C13: the risk_flags of a scored profile reflect the profile: NO_LICENSE,
\* NO_WEBSITE and NO_ACCREDITATION exactly when the field is absent or empty,
\* INVALID_LICENSE_FORMAT when a license fails the pattern and never when it
\* matches, NEW_BUSINESS exactly when years_in_business < 1, SOLO_PRACTICE
\* exactly when number_of_doctors is 1.
C13_FlagsReflectProfile ==
    (result.kind = "assessment" /\ "risk_flags" \in DOMAIN result) =>
        LET license == Get(clinic_data, "license_number", PyNone)
            engineered == engineer_features(clinic_data)
        IN  /\ "NO_LICENSE" \in FlagSet <=> Empty(clinic_data, "license_number")
            /\ "NO_WEBSITE" \in FlagSet <=> Empty(clinic_data, "website")
            /\ "NO_ACCREDITATION" \in FlagSet <=> Empty(clinic_data, "accreditation")
            /\ (Truthy(license) /\ ~LicenseFormatValid(license[2])) =>
                  "INVALID_LICENSE_FORMAT" \in FlagSet
            /\ (Truthy(license) /\ LicenseFormatValid(license[2])) =>
                  "INVALID_LICENSE_FORMAT" \notin FlagSet
            /\ "NEW_BUSINESS" \in FlagSet <=>
                  Get(engineered, "is_new_business", PyNum(0)) = PyNum(1)
            /\ "SOLO_PRACTICE" \in FlagSet <=>
                  Get(clinic_data, "number_of_doctors", PyNone) = PyNum(1)

\* the feature names of a record that carries every field
FeatureNameSet == {AllFeatureNames[i] : i \in 1..Len(AllFeatureNames)}

\* C19: engineer_features returns the same complete set of feature names for
\* every record, whichever optional fields the record carries: a field the
\* record lacks gives features valued 0, never a missing feature name.
C19_FixedFeatureNames ==
    features.ran => DOMAIN features.cols = FeatureNameSet

\* the column names of the matrix, in order
MatrixNames == [i \in 1..Len(result.matrix) |-> result.matrix[i].name]

\* C20: the matrix predict_risk hands to the classifier has exactly the
\* columns of feature_columns, in that order, holds no null, and holds 0 for
\* every column engineer_features did not derive from the record.
C20_MatrixMatchesTraining ==
    (result.kind = "assessment" /\ "matrix" \in DOMAIN result) =>
        /\ MatrixNames = trained_columns
        /\ \A i \in 1..Len(result.matrix) :
              /\ result.matrix[i].value \notin {PyNone, Absent}
              /\ result.matrix[i].name \notin DOMAIN engineer_features(clinic_data) =>
                    result.matrix[i].value = PyNum(0)

\* a scored record without a phone or a license and with a null
\* login_frequency, under training columns that hold all three: the columns
\* reach the classifier as 0
C20_Witness ==
    /\ result.kind = "assessment" /\ "matrix" \in DOMAIN result
    /\ "license_number" \notin DOMAIN clinic_data
    /\ Get(clinic_data, "login_frequency", Absent) = PyNone
    /\ \E i, j, k \in 1..Len(result.matrix) :
          /\ result.matrix[i] = [name |-> "has_phone", value |-> PyNum(0)]
          /\ result.matrix[j] = [name |-> "has_license", value |-> PyNum(0)]
          /\ result.matrix[k] = [name |-> "login_frequency", value |-> PyNum(0)]

-----------------------------------------------------------------------------
(* Claims about the score and the status of both scorers, under SpecScore *)

\* C24: when the classifier has fewer than three classes, the risk_score of
\* predict_risk is the probability of the class the model predicted.
C24_FallbackScore ==
    (result.kind = "assessment" /\ Len(clf_classes) < 3) =>
        result.risk_score = 100 * SeqMax(risk_proba)

\* C25: for every probability vector of length 1 to 3 the risk_score of
\* predict_risk and the risk_score of simple_api.assess_risk lie in [0, 1].
C25_ScoreInUnitInterval ==
    /\ result.kind = "assessment" =>
          (0 <= result.risk_score /\ result.risk_score <= One)
    /\ simple_result.kind = "assessment" =>
          (0 <= simple_result.risk_score /\ simple_result.risk_score <= One)

\* both scorers ran on a model sure of its first class: predict_risk is at
\* the lower end of the interval, simple_api at an end of its own range
C25_Witness ==
    /\ result.kind = "assessment" /\ simple_result.kind = "assessment"
    /\ risk_proba[1] = ProbDen
    /\ result.risk_score = 0
    /\ simple_result.risk_score \in {One, (40 * One) \div 100, (60 * One) \div 100}

\* C26: simple_api.assess_risk gives RESTRICTED for HIGH, ACTIVE_LIMITED for
\* LOW with a non-empty license_number, VERIFICATION_REQUIRED otherwise.
C26_SimpleStatusTable ==
    simple_result.kind = "assessment" =>
        simple_result.account_status =
            IF simple_result.risk_level = "HIGH" THEN "RESTRICTED"
            ELSE IF simple_result.risk_level = "LOW" /\ CarriesLicense(clinic_data)
                 THEN "ACTIVE_LIMITED"
            ELSE "VERIFICATION_REQUIRED"

-----------------------------------------------------------------------------
(* Claims about the probabilities and the reasons of the verdicts, under    *)
(* SpecBehavior                                                             *)

\* C28: the two probabilities of a heuristic verdict are in [0, 1] and the
\* larger one belongs to the class of the verdict.
C28_MockProbabilities ==
    (verdict.cli = "mock" /\ verdict.path = "ok") =>
        LET p == verdict.out.probabilities
        IN  /\ 0 <= p.human /\ p.human <= One
            /\ 0 <= p.bot /\ p.bot <= One
            /\ verdict.out.isHuman => p.human > p.bot
            /\ ~verdict.out.isHuman => p.bot > p.human

\* the reasons that name at least one of the learned path's bot indicators
BotIndicatorReasons ==
    LET names == << "very short time on page", "minimal interaction",
                    "high idle ratio" >>
    IN  { "Bot indicators: " \o JoinReasons(SelectSeq(names, LAMBDA n : n \in S)) :
            S \in (SUBSET {names[i] : i \in 1..3}) \ {{}} }

\* C29: a learned verdict with isHuman = false names at least one bot
\* indicator in its reason, and the reason "Behavioral patterns match human
\* interaction" comes only with isHuman = true.
C29_BotVerdictNamesIndicator ==
    (verdict.cli = "learned" /\ verdict.path = "ok") =>
        /\ verdict.out.reason = "Behavioral patterns match human interaction" =>
              verdict.out.isHuman
        /\ ~verdict.out.isHuman => verdict.out.reason \in BotIndicatorReasons

-----------------------------------------------------------------------------
(* Claims about the values of the classifier's matrix, under SpecFeatures *)

\* the number in the matrix column of that name
Cell(name) ==
    LET i == CHOOSE j \in 1..Len(result.matrix) : result.matrix[j].name = name
    IN  result.matrix[i].value[2]

\* the matrix has every one of the columns
HasColumns(names) ==
    \A n \in names : \E j \in 1..Len(result.matrix) : result.matrix[j].name = n

\* C27: in the vector handed to the classifier the derived flags agree with
\* the numbers of the same vector: a missing or null year gives
\* years_in_business 0, is_new_business is 1 exactly when years_in_business
\* < 1, is_established exactly when it is >= 5, is_solo_practice exactly when
\* number_of_doctors is 1, is_large_clinic exactly when it is > 10.
C27_FlagsAgreeWithNumbers ==
    (result.kind = "assessment" /\ "matrix" \in DOMAIN result) =>
        /\ HasColumns({"years_in_business", "is_new_business", "is_established"}) =>
              /\ Empty(clinic_data, "year_established") => Cell("years_in_business") = 0
              /\ Cell("is_new_business") = 1 <=> Cell("years_in_business") < 1
              /\ Cell("is_established") = 1 <=> Cell("years_in_business") >= 5
        /\ HasColumns({"number_of_doctors", "is_solo_practice", "is_large_clinic"}) =>
              /\ Cell("is_solo_practice") = 1 <=> Cell("number_of_doctors") = 1
              /\ Cell("is_large_clinic") = 1 <=> Cell("number_of_doctors") > 10

\* C30: for a record with a submission timestamp, is_late_night is 1 exactly
\* for the hours 22, 23 and 0 to 6, and 0 for every other hour.
C30_LateNightHours ==
    (features.ran /\ "submission_timestamp" \in DOMAIN clinic_data) =>
        LET hour == clinic_data["submission_timestamp"][3]
        IN  features.cols["is_late_night"] = PyNum(1) <=>
               hour \in {22, 23} \cup 0..6

-----------------------------------------------------------------------------
(* Claim about training and serving, under SpecFeatures *)

\* C21: the features computed for a record at inference are the features
\* the training code computes for the same record: simple_api.assess_risk
\* against clean_train.main, and predict_risk against train_model (for a
\* bundle trained on data that has every column).  The first comparison is
\* made for the records that have a number in both numeric fields, as every
\* row of the frame clean_train builds has.
C21_NoTrainServeSkew ==
    /\ ( /\ simple_result.kind = "assessment"
         /\ \A k \in {"year_established", "number_of_doctors"} :
               ~Empty(clinic_data, k) ) =>
          simple_result.features = clean_train_features(clinic_data)
    /\ ( /\ result.kind = "assessment" /\ "matrix" \in DOMAIN result
         /\ trained_columns = AllFeatureNames
         /\ "submission_timestamp" \notin DOMAIN clinic_data ) =>
          result.matrix =
              encode_categorical_features(
                  align_columns(engineer_features(training_row(clinic_data)),
                                AllFeatureNames))

-----------------------------------------------------------------------------
(* Claims about training, under SpecTrain *)

\* C22: for every vector of three mean scores train_model selects the
\* candidate with the highest score, the first declared among ties, and
\* that pipeline is the one fitted and stored as the model.
C22_SelectsHighestScore ==
    ( /\ trainer.pc = "ready" /\ trainer.ret # "none" /\ trainer.data.found
      /\ \A i \in 1..3 : trainer.scores[i][1] = "score" ) =>
        LET names == <<"RandomForest", "GradientBoosting", "LogisticRegression">>
            s(i)  == trainer.scores[i][2]
            best  == CHOOSE i \in 1..3 :
                        /\ \A j \in 1..3 : s(j) <= s(i)
                        /\ \A j \in 1..3 : j < i => s(j) < s(i)
        IN  trainer.ret = "true" /\ trainer.model = names[best]

\* C23: training data with fewer samples than the minimum, or with a single
\* label class, produces no bundle: train_model does not succeed, save_model
\* writes nothing and behavior_training.main writes nothing.
C23_NoBundleFromPoorData ==
    ( /\ trainer.pc = "ready" /\ trainer.data.found
      /\ (trainer.data.samples < MinSamples \/ trainer.data.single_class) ) =>
        /\ trainer.ret # "true"
        /\ trainer.bundle = "none"
        /\ trainer.behavior # "written"

=============================================================================
